---- MODULE Spec2Model ----
(***************************************************************************)
(* A model of the 2-D lidar pipeline of DogRobotics:                       *)
(*   - SimpleReactivePlanner (2D_LIDAR/planning_path.py): occupancy        *)
(*     binning, largest-gap search, hysteresis and the motion command;     *)
(*   - LidarSmoother (2D_LIDAR/pre_processing.py): validity filter, gap    *)
(*     fill, median filter and exponential smoothing.                      *)
(*                                                                         *)
(* Units.  Scan angles are whole degrees and distances whole millimetres.  *)
(* safe_dist is kept in millimetres (dist_mm / 1000.0 <= safe_dist is      *)
(* dist_mm <= 1000 * safe_dist).  Bin centre angles are multiples of half  *)
(* a degree, so every target angle is kept in HALF DEGREES (0 .. 719).     *)
(* v is in cm/s and omega in tenths of rad/s.                              *)
(* Python's None is the empty tuple << >> and a present value x is <<x>>.  *)
(***************************************************************************)
EXTENDS Integers, Sequences, FiniteSets, TLC

VARIABLES
    pc,           \* "new" | "ready" | "config_error": outcome of the constructor
    args,         \* the constructor's arguments (a record), << >> before the call
    self,         \* the planner's configuration fields set by __init__
    history,      \* self.history: deque(maxlen = self.maxlen) of raw actions
    last_action,  \* self.last_action
    scan,         \* scan_points of the latest choose_action call
    ret,          \* << >> or <<command>>: what the latest call returned
    exc,          \* "none" or the exception the latest operation raised
    prev_action,  \* self.last_action as it was when the latest call began
    prev_full,    \* whether self.history was full when the latest call began
    repeat,       \* how many consecutive calls (window-capped) got this scan
    g_blocked,    \* find_largest_gap called directly: its blocked argument
    g_fov,        \*   its fov_bins argument
    g_ret,        \*   << >> before the call, then <<what it returned>>
    s_cfg,        \* LidarSmoother: << >> before construction, then <<[alpha, med_win]>>
    s_state,      \*   self.state: << >> (None) or <<profile>>
    s_in,         \*   distances_mm of the latest call
    s_ret,        \*   << >> or <<profile>> returned by the latest call
    s_exc,        \*   "none" or the exception that call raised
    s_calls       \*   number of calls made

pvars == <<pc, args, self, history, last_action, scan, ret, exc, prev_action,
          prev_full, repeat>>
gvars == <<g_blocked, g_fov, g_ret>>
svars == <<s_cfg, s_state, s_in, s_ret, s_exc, s_calls>>
vars == <<pvars, gvars, svars>>

None == << >>
Some(x) == <<x>>

\* planning_path.py:5-8
STOP == "STOP"
FORWARD == "FORWARD"
TURN_LEFT == "TURN_LEFT"
TURN_RIGHT == "TURN_RIGHT"
Actions == {STOP, FORWARD, TURN_LEFT, TURN_RIGHT}

\* v = 0.15 m/s, in cm/s; omega = 0.8 rad/s, in tenths of rad/s
ForwardSpeed == 15
TurnRate == 8

Min(a, b) == IF a <= b THEN a ELSE b
Max(a, b) == IF a >= b THEN a ELSE b
Abs(a) == IF a >= 0 THEN a ELSE -a

\* Python's a // b on integers (floor division), b # 0.
FloorDiv(a, b) == IF b > 0 THEN a \div b ELSE (-a) \div (-b)

norm360(a) == a % 360

angle_in_sector(angle, start, end) ==
    LET a == norm360(angle)
        s == norm360(start)
        e == norm360(end)
    IN  IF s <= e THEN s <= a /\ a <= e
                  ELSE a >= s \/ a <= e

----------------------------------------------------------------------------
(* SimpleReactivePlanner *)

\* n_bins = int(360 // self.res)
n_bins_of(res) == FloorDiv(360, res)

\* The loop body with the comparison of planning_path.py:26 (< safe_dist).
mark_sample_strict(st, res, safe_dist, p) ==
    LET n_bins == n_bins_of(res)
    IN  IF st.exc # "none" THEN st
        ELSE IF p[2] <= 0 THEN st
        ELSE IF p[2] < safe_dist
             THEN IF n_bins <= 0
                  THEN [st EXCEPT !.exc = "IndexError"]
                  ELSE [st EXCEPT !.blocked =
                           [@ EXCEPT ![(norm360(p[1]) \div res) % n_bins] = TRUE]]
        ELSE st

\* One iteration of the loop of build_occupancy_by_angle over a sample.
\* blocked is a function on 0 .. n_bins-1; with n_bins <= 0 the list is empty
\* and the assignment blocked[idx] = True raises IndexError.
mark_sample(st, res, safe_dist, p) ==
    LET ang == p[1]
        dist_mm == p[2]
        n_bins == n_bins_of(res)
    IN  IF st.exc # "none" THEN st
        ELSE IF dist_mm <= 0 THEN st
        ELSE IF dist_mm <= safe_dist
             THEN IF n_bins <= 0
                  THEN [st EXCEPT !.exc = "IndexError"]
                  ELSE LET idx == (norm360(ang) \div res) % n_bins
                       IN  [st EXCEPT !.blocked = [@ EXCEPT ![idx] = TRUE]]
        ELSE st

RECURSIVE occupancy_loop(_, _, _, _, _)
occupancy_loop(st, res, safe_dist, scan_points, i) ==
    IF i > Len(scan_points) THEN st
    ELSE occupancy_loop(mark_sample(st, res, safe_dist, scan_points[i]),
                        res, safe_dist, scan_points, i + 1)

\* Returns [blocked |-> the mask, exc |-> "none" or "IndexError"].
build_occupancy_by_angle(slf, scan_points) ==
    LET n_bins == n_bins_of(slf.res)
        start == [blocked |-> [j \in 0 .. n_bins - 1 |-> FALSE], exc |-> "none"]
    IN  occupancy_loop(start, slf.res, slf.safe_dist, scan_points, 1)

\* The bins i of range(n_bins) whose start angle i * res lies in the FOV, in
\* increasing order.
extract_fov_bins(slf) ==
    LET n_bins == n_bins_of(slf.res)
        in_fov(i) == angle_in_sector(i * slf.res, slf.fov_start, slf.fov_end)
    IN  SelectSeq([k \in 1 .. n_bins |-> k - 1], in_fov)

\* The loop body with >= for >: a later run of equal length replaces the best.
gap_step_last(st, val, i) ==
    IF val = 0
    THEN [st EXCEPT !.cur_start = IF st.cur_len = 0 THEN i ELSE @,
                    !.cur_len = @ + 1]
    ELSE IF st.cur_len >= st.best_len /\ st.cur_len > 0
         THEN [st EXCEPT !.best_len = st.cur_len,
                         !.best_range = Some(<<st.cur_start, i - 1>>),
                         !.cur_len = 0]
         ELSE [st EXCEPT !.cur_len = 0]

\* One iteration of the run scan of find_largest_gap at position i (1-based)
\* of seq; best_range is None or <<(first, last)>> in positions of seq.
gap_step(st, val, i) ==
    IF val = 0
    THEN [st EXCEPT !.cur_start = IF st.cur_len = 0 THEN i ELSE @,
                    !.cur_len = @ + 1]
    ELSE IF st.cur_len > st.best_len
         THEN [st EXCEPT !.best_len = st.cur_len,
                         !.best_range = Some(<<st.cur_start, i - 1>>),
                         !.cur_len = 0]
         ELSE [st EXCEPT !.cur_len = 0]

RECURSIVE gap_loop(_, _, _)
gap_loop(st, seq, i) ==
    IF i > Len(seq) THEN st
    ELSE gap_loop(gap_step(st, seq[i], i), seq, i + 1)

\* The tail check after the loop.
gap_tail(st, seq) ==
    IF st.cur_len > st.best_len
    THEN [st EXCEPT !.best_len = st.cur_len,
                    !.best_range = Some(<<st.cur_start, Len(seq)>>)]
    ELSE st

\* The run scan with the blocked flag read the wrong way round.
find_largest_gap_inverted(blocked, fov_bins) ==
    IF fov_bins = << >> THEN None
    ELSE LET seq == [k \in 1 .. Len(fov_bins) |->
                        IF blocked[fov_bins[k]] THEN 0 ELSE 1]
             init == [best_len |-> 0, best_range |-> None,
                      cur_len |-> 0, cur_start |-> 1]
             fin == gap_tail(gap_loop(init, seq, 1), seq)
         IN  IF fin.best_range = None THEN None
             ELSE <<fov_bins[fin.best_range[1][1]],
                    fov_bins[fin.best_range[1][2]],
                    fin.best_len>>

\* None, or <<s_idx, e_idx, best_len>>.
find_largest_gap(blocked, fov_bins) ==
    IF fov_bins = << >> THEN None
    ELSE LET seq == [k \in 1 .. Len(fov_bins) |->
                        IF ~blocked[fov_bins[k]] THEN 0 ELSE 1]
             init == [best_len |-> 0, best_range |-> None,
                      cur_len |-> 0, cur_start |-> 1]
             fin == gap_tail(gap_loop(init, seq, 1), seq)
         IN  IF fin.best_range = None THEN None
             ELSE <<fov_bins[fin.best_range[1][1]],
                    fov_bins[fin.best_range[1][2]],
                    fin.best_len>>

\* (bin_idx * res + res / 2.0) % 360, in half degrees.
bin_to_angle(slf, bin_idx) == (2 * bin_idx * slf.res + slf.res) % 720

\* The target angle left in [0, 360), not normalised.
normalize_angle_none(target_angle) == target_angle

\* ((target_angle + 180) % 360) - 180, in half degrees.
normalize_angle(target_angle) == ((target_angle + 360) % 720) - 360

\* The action for a gap at least min_gap wide (planning_path.py:127-140).
classify(slf, gap) ==
    LET mid_bin == (gap[1] + gap[2]) \div 2
        a == normalize_angle(bin_to_angle(slf, mid_bin))
    IN  IF Abs(a) <= 2 * slf.forward_thresh THEN FORWARD
        ELSE IF a > 0 THEN TURN_RIGHT
        ELSE TURN_LEFT

\* The raw action of a cycle (planning_path.py:114-140).
raw_action(slf, gap) ==
    IF gap = None THEN STOP
    ELSE IF gap[3] < slf.min_gap THEN STOP
    ELSE classify(slf, gap)

\* deque.append with maxlen: the oldest entry is dropped when full.
deque_append(h, maxlen, a) ==
    IF maxlen = 0 THEN h
    ELSE IF Len(h) = maxlen THEN Append(Tail(h), a)
    ELSE Append(h, a)

Count(h, a) == Cardinality({i \in 1 .. Len(h) : h[i] = a})

\* A vote that takes the oldest entry of the window.
most_common_oldest(h) == h[1]

\* Counter(h).most_common(1)[0][0]: the highest count, the first-encountered
\* element winning a tie (h is not empty).
most_common(h) ==
    LET best == CHOOSE i \in 1 .. Len(h) :
                    /\ \A j \in 1 .. Len(h) : Count(h, h[j]) <= Count(h, h[i])
                    /\ \A j \in 1 .. i - 1 : Count(h, h[j]) < Count(h, h[i])
    IN  h[best]

\* planning_path.py:144-151, given the history after the append.
stable_of(h, maxlen, last, action) ==
    IF Len(h) = maxlen
    THEN most_common(h)
    ELSE IF last # "" THEN last ELSE action

\* The lookup with the sign of the right turn lost.
motion_of_unsigned(stable_action) ==
    IF stable_action = FORWARD THEN <<ForwardSpeed, 0>>
    ELSE IF stable_action \in {TURN_LEFT, TURN_RIGHT} THEN <<0, TurnRate>>
    ELSE <<0, 0>>

\* planning_path.py:156-167: <<v, omega>>.
motion_of(stable_action) ==
    IF stable_action = FORWARD THEN <<ForwardSpeed, 0>>
    ELSE IF stable_action = TURN_LEFT THEN <<0, TurnRate>>
    ELSE IF stable_action = TURN_RIGHT THEN <<0, -TurnRate>>
    ELSE <<0, 0>>

\* planning_path.py:169-175.
command_of(slf, stable_action, gap, blocked) ==
    [action |-> stable_action,
     target_angle |-> IF gap = None THEN None
                      ELSE Some(bin_to_angle(slf, (gap[1] + gap[2]) \div 2)),
     gap_width_bins |-> IF gap = None THEN None ELSE Some(gap[3]),
     v |-> motion_of(stable_action)[1],
     omega |-> motion_of(stable_action)[2],
     blocked_map |-> blocked]

\* The part of choose_action before the hysteresis (planning_path.py:110-140).
decide(slf, scan_points) ==
    LET occ == build_occupancy_by_angle(slf, scan_points)
        fov_bins == extract_fov_bins(slf)
        gap == find_largest_gap(occ.blocked, fov_bins)
    IN  IF occ.exc # "none"
        THEN [exc |-> occ.exc, blocked |-> occ.blocked, gap |-> None, action |-> STOP]
        ELSE [exc |-> "none", blocked |-> occ.blocked, gap |-> gap,
              action |-> raw_action(slf, gap)]

\* SimpleReactivePlanner.__init__: [ok, exc, self].  min_gap_deg // 0 raises
\* ZeroDivisionError and deque(maxlen < 0) raises ValueError; nothing else is
\* checked.
init_planner(a) ==
    IF a.resolution_deg = 0
    THEN [ok |-> FALSE, exc |-> "ZeroDivisionError", self |-> None]
    ELSE IF a.hysteresis_len < 0
    THEN [ok |-> FALSE, exc |-> "ValueError", self |-> None]
    ELSE [ok |-> TRUE, exc |-> "none",
          self |-> [safe_dist |-> a.safe_dist,
                    fov_start |-> norm360(a.fov_min),
                    fov_end |-> norm360(a.fov_max),
                    res |-> a.resolution_deg,
                    min_gap |-> Max(1, FloorDiv(a.min_gap_deg, a.resolution_deg)),
                    forward_thresh |-> a.forward_threshold_deg,
                    maxlen |-> a.hysteresis_len]]

----------------------------------------------------------------------------
(* LidarSmoother.  A float is modelled as the exact fraction <<n, d>> in     *)
(* lowest terms, d > 0 (rounding error is not modelled); NaN is None.  An  *)
(* input sample is <<"num", v>> (v whole millimetres), <<"nan", 0>> or     *)
(* <<"inf", 0>>.                                                           *)

RECURSIVE GCD(_, _)
GCD(a, b) == IF b = 0 THEN a ELSE GCD(b, a % b)
LCM(a, b) == (a \div GCD(a, b)) * b

Frac(n, d) == LET g == GCD(Abs(n), d) IN <<n \div g, d \div g>>
FAdd(x, y) ==
    LET l == LCM(x[2], y[2])
    IN  Frac(x[1] * (l \div x[2]) + y[1] * (l \div y[2]), l)
FSub(x, y) == FAdd(x, <<-y[1], y[2]>>)
FMul(x, y) ==
    LET a == Frac(x[1], y[2])
        b == Frac(y[1], x[2])
    IN  Frac(a[1] * b[1], a[2] * b[2])
FLess(x, y) ==
    LET l == LCM(x[2], y[2])
    IN  x[1] * (l \div x[2]) < y[1] * (l \div y[2])

\* The validity filter without its lower bound.
validity_filter_lax(p) ==
    IF p[1] # "num" THEN None
    ELSE IF p[2] > 12000 THEN None
    ELSE Some(Frac(p[2], 1))

\* d[(d < 100) | (d > 12000) | ~np.isfinite(d)] = np.nan, one sample.
validity_filter(p) ==
    IF p[1] # "num" THEN None
    ELSE IF p[2] < 100 \/ p[2] > 12000 THEN None
    ELSE Some(Frac(p[2], 1))

\* np.interp(x, xp, fp) at index x, xp the (non-empty, increasing) indices of
\* the valid samples: the end values outside [xp[0], xp[-1]], linear between
\* the neighbours inside.
interp_at(x, d) ==
    LET xp == {i \in 1 .. Len(d) : d[i] # None}
        first == CHOOSE i \in xp : \A j \in xp : i <= j
        last == CHOOSE i \in xp : \A j \in xp : i >= j
    IN  IF x <= first THEN d[first][1]
        ELSE IF x >= last THEN d[last][1]
        ELSE LET lo == CHOOSE i \in xp : i < x /\ \A j \in xp : j < x => j <= i
                 hi == CHOOSE i \in xp : i > x /\ \A j \in xp : j > x => j >= i
                 slope == FMul(FSub(d[hi][1], d[lo][1]), Frac(1, hi - lo))
             IN  FAdd(FMul(slope, Frac(x - lo, 1)), d[lo][1])

\* k = max(1, k | 1)
odd_window(k) == IF k < 1 THEN 1 ELSE IF k % 2 = 0 THEN k + 1 ELSE k

\* np.median of the k = 2 * pad + 1 values w: the middle one in sorted order.
median_of(w, pad) ==
    LET below(m) == Cardinality({i \in 1 .. Len(w) : FLess(w[i], m)})
        upto(m) == Cardinality({i \in 1 .. Len(w) : ~FLess(m, w[i])})
        j == CHOOSE i \in 1 .. Len(w) : below(w[i]) <= pad /\ upto(w[i]) >= pad + 1
    IN  w[j]

\* median_filter_1d(x, k), x padded by its edge values.
median_filter_1d(x, k) ==
    LET kk == odd_window(k)
        pad == kk \div 2
        xp(i) == x[Max(1, Min(Len(x), i))]
    IN  [i \in 1 .. Len(x) |->
            median_of([t \in 1 .. kk |-> xp(i - pad + t - 1)], pad)]

\* self.alpha * d + (1 - self.alpha) * self.state, element by element.
ema(alpha, d, state) ==
    [i \in 1 .. Len(d) |->
        FAdd(FMul(alpha, d[i]), FMul(FSub(<<1, 1>>, alpha), state[i]))]

\* LidarSmoother.__call__: [state, ret, exc].  With a missing sample and no
\* valid one, np.interp is given empty xp and raises ValueError.
smoother_call(cfg, state, distances_mm) ==
    LET d == [i \in 1 .. Len(distances_mm) |-> validity_filter(distances_mm[i])]
        isn == {i \in 1 .. Len(d) : d[i] = None}
    IN  IF isn # {} /\ isn = DOMAIN d
        THEN [state |-> state, ret |-> None, exc |-> "ValueError"]
        ELSE LET filled == [i \in 1 .. Len(d) |->
                               IF i \in isn THEN interp_at(i, d) ELSE d[i][1]]
                 med == median_filter_1d(filled, cfg.med_win)
                 new == IF state = None THEN med
                        ELSE ema(cfg.alpha, med, state[1])
             IN  [state |-> Some(new), ret |-> Some(new), exc |-> "none"]

----------------------------------------------------------------------------
(* Inputs *)

\* The longest hysteresis window tried.
MaxHyst == 3

Args(sd, lo, hi, r, mg, ft, h) ==
    [safe_dist |-> sd, fov_min |-> lo, fov_max |-> hi, resolution_deg |-> r,
     min_gap_deg |-> mg, forward_threshold_deg |-> ft, hysteresis_len |-> h]

\* Accepted configurations: the defaults (safe_dist 0.5, FOV [-90, 90],
\* min_gap_deg 10, forward_threshold_deg 8) and the viewer's safe_dist 0.45
\* at coarser resolutions, an unwrapped FOV, wider thresholds, a minimum gap
\* of three bins, and a full-circle FOV with a bin centred on 180 degrees.
ValidArgs ==
    { Args(b[1], b[2], b[3], b[4], b[5], b[6], h) :
        b \in { <<500, -90, 90, 15, 10, 8>>,
                <<450, -90, 90, 30, 10, 8>>,
                <<500, -90, 90, 30, 30, 20>>,
                <<500, 30, 150, 30, 45, 20>>,
                <<500, -45, 45, 10, 10, 8>>,
                <<500, -90, 90, 15, 45, 8>>,
                <<500, 0, 359, 40, 40, 20>> },
        h \in 1 .. MaxHyst }

\* Configurations the specification calls invalid.
InvalidArgs ==
    { Args(0, -90, 90, 15, 10, 8, 1),
      Args(-500, -90, 90, 15, 10, 8, 2),
      Args(500, -90, 90, 0, 10, 8, 1),
      Args(500, -90, 90, -30, 10, 8, 1),
      Args(500, -90, 90, 15, 10, 8, 0),
      Args(500, -90, 90, 15, 10, 8, -1) }

ArgsInputs == ValidArgs \cup InvalidArgs

\* A full sweep sampled every 15 degrees, at 300 mm everywhere but in the
\* sector [lo, hi], where it is far.
GapScan(lo, hi, far) ==
    [i \in 1 .. 24 |->
        <<15 * (i - 1), IF angle_in_sector(15 * (i - 1), lo, hi) THEN far ELSE 300>>]

\* A full sweep with every sample at d.
UniformScan(d) == [i \in 1 .. 24 |-> <<15 * (i - 1), d>>]

AllBlockedScan == UniformScan(300)
AllClearScan == UniformScan(5000)

\* Gaps centred on 0 degrees: with samples every 15 degrees and bins that are
\* multiples of 15 degrees wide, the free bins cover [-15, 15), [-30, 30) and
\* [-45, 45) (at 15 degrees a bin) or [-30, 30) and [-60, 60) (at 30).
CenteredScans ==
    { GapScan(-15, 0, 2000), GapScan(-30, 15, 2000), GapScan(-45, 30, 2000) }

SideScans ==
    { GapScan(30, 75, 2000), GapScan(-75, -30, 2000), GapScan(150, 210, 2000),
      GapScan(60, 60, 2000) }

\* Sparse and malformed scans: no return (0, negative), ranges at and around
\* the thresholds, angles outside [0, 360) and off the sampling grid.
OddScans ==
    { << >>,
      << <<0, 0>>, <<15, -1>>, <<352, 500>>, <<-10, 450>>, <<365, 451>>, <<7, 501>> >>,
      << <<359, 1>>, <<720, 499>>, <<44, 0>>, <<46, 450>> >> }

Scans == {AllBlockedScan, AllClearScan} \cup CenteredScans \cup SideScans \cup OddScans

----------------------------------------------------------------------------
(* choose_action *)

\* decide for every accepted configuration and scan above, evaluated once
\* (@@ makes the table an explicit function).
DecideTable ==
    [k \in {<<init_planner(a).self, p>> :
                a \in {x \in ArgsInputs : init_planner(x).ok}, p \in Scans}
        |-> decide(k[1], k[2])] @@ << >>

decide_once(slf, scan_points) ==
    IF <<slf, scan_points>> \in DOMAIN DecideTable
    THEN DecideTable[<<slf, scan_points>>]
    ELSE decide(slf, scan_points)

\* choose_action as a function of the planner's state and the scan: the new
\* history and last_action, the returned command and the exception raised.
\* With maxlen = 0 the history stays empty, counts as full, and
\* cnt.most_common(1)[0] raises IndexError.
choose_action(slf, hist, last, scan_points) ==
    LET d == decide_once(slf, scan_points)
        h2 == deque_append(hist, slf.maxlen, d.action)
        stable_action == stable_of(h2, slf.maxlen, last, d.action)
    IN  IF d.exc # "none"
        THEN [history |-> hist, last_action |-> last, ret |-> None, exc |-> d.exc]
        ELSE IF Len(h2) = slf.maxlen /\ h2 = << >>
        THEN [history |-> h2, last_action |-> last, ret |-> None, exc |-> "IndexError"]
        ELSE [history |-> h2, last_action |-> stable_action,
              ret |-> Some(command_of(slf, stable_action, d.gap, d.blocked)),
              exc |-> "none"]

----------------------------------------------------------------------------
(* The planner as a state machine *)

GapIdle == /\ g_blocked = << >> /\ g_fov = << >> /\ g_ret = << >>
SmootherIdle ==
    /\ s_cfg = << >> /\ s_state = << >> /\ s_in = << >>
    /\ s_ret = << >> /\ s_exc = "none" /\ s_calls = 0

PlannerNew ==
    /\ pc = "new" /\ args = << >> /\ self = << >>
    /\ history = << >> /\ last_action = STOP
    /\ scan = << >> /\ ret = << >> /\ exc = "none"
    /\ prev_action = STOP /\ prev_full = FALSE /\ repeat = 0

Init == PlannerNew /\ GapIdle /\ SmootherIdle

\* planner = SimpleReactivePlanner(**a)
Construct(a) ==
    /\ pc = "new"
    /\ LET r == init_planner(a)
       IN  /\ pc' = IF r.ok THEN "ready" ELSE "config_error"
           /\ self' = r.self
           /\ exc' = r.exc
    /\ args' = a
    /\ history' = << >>
    /\ last_action' = STOP
    /\ UNCHANGED <<scan, ret, prev_action, prev_full, repeat>>
    /\ UNCHANGED <<gvars, svars>>

\* result = planner.choose_action(pts)
ChooseAction(pts) ==
    /\ pc = "ready"
    /\ LET r == choose_action(self, history, last_action, pts)
       IN  /\ history' = r.history
           /\ last_action' = r.last_action
           /\ ret' = r.ret
           /\ exc' = r.exc
    /\ scan' = pts
    /\ prev_action' = last_action
    /\ prev_full' = (Len(history) = self.maxlen)
    /\ repeat' = IF ret # << >> /\ pts = scan
                 THEN Min(repeat + 1, Max(self.maxlen, 1))
                 ELSE 1
    /\ UNCHANGED <<pc, args, self>>
    /\ UNCHANGED <<gvars, svars>>

Next ==
    \/ \E a \in ArgsInputs : Construct(a)
    \/ \E pts \in Scans : ChooseAction(pts)

Spec == Init /\ [][Next]_vars

----------------------------------------------------------------------------
(* Properties of the planner *)

Returned == pc = "ready" /\ ret # << >>

\* The configuration is one the specification accepts.
ValidConfig ==
    /\ args.safe_dist > 0
    /\ args.resolution_deg > 0
    /\ 360 % args.resolution_deg = 0
    /\ args.hysteresis_len >= 1
cmd == ret[1]

\* Every bin of the configured FOV is blocked in the mask of the latest call.
FovBlocked ==
    LET fb == extract_fov_bins(self)
    IN  \A k \in 1 .. Len(fb) : cmd.blocked_map[fb[k]]

Halted == cmd.action = STOP /\ cmd.v = 0 /\ cmd.omega = 0

\* The raw action has a strict majority of the window after the latest call.
StrictMajority(a) == 2 * Count(history, a) > Len(history)

\* C1 as stated: a scan that blocks every FOV bin makes choose_action return
\* STOP with v = 0 and omega = 0, in every reachable planner state.
C1_AnyState == (Returned /\ FovBlocked) => Halted

\* C1 amended: such a scan always has raw action STOP, and the returned command
\* is STOP with v = 0 and omega = 0 while the history has not filled or when
\* raw STOP holds a strict majority of the window (this cycle included).
C1_BlockedStops ==
    (Returned /\ FovBlocked) =>
        /\ history[Len(history)] = STOP
        /\ (Len(history) < self.maxlen \/ StrictMajority(STOP)) => Halted

\* A blocked scan switches a full window from a moving action to STOP.
C1_Witness ==
    /\ Returned /\ FovBlocked
    /\ Len(history) = self.maxlen /\ self.maxlen >= 3
    /\ prev_action # STOP /\ Halted

\* The free bins of the latest mask are exactly the k bins on either side of
\* 0 degrees, a gap centred on the forward direction, all inside the FOV and
\* wider than min_gap_deg.
CenteredGap ==
    LET n == n_bins_of(self.res)
        fb == extract_fov_bins(self)
        inFov == {fb[i] : i \in 1 .. Len(fb)}
        free == {j \in 0 .. n - 1 : ~cmd.blocked_map[j]}
    IN  \E k \in 1 .. n \div 2 :
            /\ free = (0 .. k - 1) \cup (n - k .. n - 1)
            /\ free \subseteq inFov
            /\ 2 * k * self.res > args.min_gap_deg

\* The latest scan has been fed for at least a whole hysteresis window.
Settled == Returned /\ ValidConfig /\ repeat >= self.maxlen

GoesForward == cmd.action = FORWARD /\ cmd.v = ForwardSpeed /\ cmd.omega = 0

\* C2: once a scan whose only free bins are a gap centred on 0 degrees, inside
\* the FOV and wider than min_gap_deg, has been fed for a whole hysteresis
\* window, choose_action returns FORWARD at the forward speed with omega = 0.
C2_CenteredForward == (Settled /\ CenteredGap) => GoesForward

\* C3: once a scan with every sample at 5000 mm has filled the history, the
\* command is FORWARD at the forward speed, omega = 0, with a target angle
\* within one bin of 0 degrees.
C3_ClearForward ==
    (Settled /\ scan = AllClearScan) =>
        /\ GoesForward
        /\ cmd.target_angle # None
        /\ Abs(normalize_angle(cmd.target_angle[1])) <= 2 * self.res

\* The window holds H-1 entries a and one entry b, and the stable action was a
\* with a full window when the latest call began.
NoiseWindow(a, b) ==
    /\ Returned /\ ValidConfig /\ prev_full /\ prev_action = a
    /\ a # b
    /\ Count(history, b) = 1
    /\ Count(history, a) = self.maxlen - 1

\* The newest floor(H/2)+1 entries of a full window are all b.
MajorityRun(b) ==
    /\ Returned /\ Len(history) = self.maxlen
    /\ \A i \in (self.maxlen - self.maxlen \div 2) .. self.maxlen : history[i] = b

\* C4 as stated, for every H >= 1: a single noise cycle b in a window of a
\* leaves the stable action a, and floor(H/2)+1 consecutive b make it b.
C4_AnyLength ==
    /\ \A a, b \in Actions : NoiseWindow(a, b) => cmd.action = a
    /\ \A b \in Actions : MajorityRun(b) => cmd.action = b

\* C4 amended: the noise half holds for H >= 3; the majority half for H >= 1.
C4_Hysteresis ==
    /\ \A a, b \in Actions :
          (NoiseWindow(a, b) /\ self.maxlen >= 3) => cmd.action = a
    /\ \A b \in Actions : MajorityRun(b) => cmd.action = b

\* A noise cycle sits in the middle of a window of at least three and the
\* stable action is unchanged.
C4_Witness ==
    /\ Returned /\ self.maxlen >= 3
    /\ \E a, b \in Actions :
          /\ NoiseWindow(a, b) /\ history[2] = b /\ a # STOP
          /\ cmd.action = a

\* C5: a planner is constructed only from a configuration with safe_dist > 0,
\* resolution_deg > 0 and hysteresis_len >= 1, so choose_action never runs on
\* any other.
C5_Rejected ==
    pc = "ready" =>
        /\ args.safe_dist > 0
        /\ args.resolution_deg > 0
        /\ args.hysteresis_len >= 1
        /\ (Returned \/ exc # "none") => ValidConfig

\* The planner that differs from the constructed one only in resolution_deg,
\* which is halved.
HalvedSelf == init_planner([args EXCEPT !.resolution_deg = @ \div 2]).self

\* The scan blocks the same physical angles at both resolutions: the two
\* halves of every bin of the coarse mask are both blocked or both free.
SameBlockedAngles ==
    LET fine == decide(HalvedSelf, scan).blocked
    IN  \A j \in DOMAIN cmd.blocked_map :
            /\ fine[2 * j] = cmd.blocked_map[j]
            /\ fine[2 * j + 1] = cmd.blocked_map[j]

\* C7: for planners that differ only in resolution_deg, r and r/2 (both
\* dividing 360), and a scan that blocks the same physical angles in both,
\* the raw action class of the scan is the same.
C7_ResolutionInvariant ==
    (Returned /\ ValidConfig /\ self.res % 2 = 0 /\ SameBlockedAngles) =>
        decide(self, scan).action = decide(HalvedSelf, scan).action

\* C8: (v, omega) is the fixed lookup of the returned action, never both
\* non-zero, and the returned action is the persisted last_action.
C8_Lookup ==
    Returned =>
        /\ cmd.action \in Actions
        /\ cmd.action = FORWARD => (cmd.v = ForwardSpeed /\ cmd.omega = 0)
        /\ cmd.action = TURN_LEFT => (cmd.v = 0 /\ cmd.omega = TurnRate)
        /\ cmd.action = TURN_RIGHT => (cmd.v = 0 /\ cmd.omega = -TurnRate)
        /\ cmd.action = STOP => (cmd.v = 0 /\ cmd.omega = 0)
        /\ ~(cmd.v # 0 /\ cmd.omega # 0)
        /\ cmd.action = last_action

\* Every moving action has been returned with a full window behind it.
C8_Witness ==
    /\ Returned /\ prev_full
    /\ cmd.action = TURN_RIGHT /\ cmd.omega = -TurnRate
    /\ prev_action = TURN_LEFT

Filling == Len(history) < self.maxlen

\* The raw action of the latest call: the newest entry of the history.
LatestRaw == history[Len(history)]

\* C12: while the history has not filled, the returned action is the previous
\* cycle's stable action, and on the very first call of a fresh planner it is
\* that call's own raw action.
C12_Startup ==
    (Returned /\ ValidConfig /\ Filling) =>
        /\ Len(history) >= 2 => cmd.action = prev_action
        /\ Len(history) = 1 => cmd.action = LatestRaw

\* The largest gap of the latest call is absent or narrower than min_gap.
NoPassableGap ==
    \/ cmd.gap_width_bins = None
    \/ cmd.gap_width_bins[1] < self.min_gap

\* C13: whenever the largest gap is absent or narrower than min_gap bins, the
\* raw action is STOP and the returned command carries no target angle.
C13_NoTarget ==
    (Returned /\ ValidConfig /\ NoPassableGap) =>
        /\ LatestRaw = STOP
        /\ cmd.target_angle = None

\* The largest gap of the latest call is at least min_gap bins wide.
PassableGap ==
    /\ cmd.gap_width_bins # None
    /\ cmd.gap_width_bins[1] >= self.min_gap

\* The gap of the latest call, from its mask.
LatestGap == find_largest_gap(cmd.blocked_map, extract_fov_bins(self))

\* The center angle of bin (start_bin + end_bin) / 2, in half degrees.
MidCenter ==
    ((2 * ((LatestGap[1] + LatestGap[2]) \div 2) + 1) * self.res) % 720

\* An angle in half degrees brought into (-180, 180] and into [-180, 180).
NormUpperClosed(t) == IF t % 720 > 360 THEN (t % 720) - 720 ELSE t % 720
NormLowerClosed(t) == IF t % 720 >= 360 THEN (t % 720) - 720 ELSE t % 720

\* FORWARD within the threshold, TURN_RIGHT beyond it on the positive side,
\* TURN_LEFT otherwise.
ClassOf(a) ==
    IF Abs(a) <= 2 * self.forward_thresh THEN FORWARD
    ELSE IF a > 0 THEN TURN_RIGHT
    ELSE TURN_LEFT

\* C14 as stated: for a gap at least min_gap bins wide the target angle is
\* the center of bin (start_bin + end_bin) / 2 and the raw action is the class
\* of that angle normalised into (-180, 180], a center of exactly 180 degrees
\* counting as +180.
C14_UpperClosed ==
    (Returned /\ ValidConfig /\ PassableGap) =>
        /\ cmd.target_angle = Some(MidCenter)
        /\ LatestRaw = ClassOf(NormUpperClosed(MidCenter))

\* C14, amended: the same with the angle normalised into [-180, 180), a
\* center of exactly 180 degrees counting as -180 (so TURN_LEFT when the
\* threshold is below 180).
C14_Classification ==
    (Returned /\ ValidConfig /\ PassableGap) =>
        /\ cmd.target_angle = Some(MidCenter)
        /\ LatestRaw = ClassOf(NormLowerClosed(MidCenter))

\* A passable gap whose midpoint bin is centred on exactly 180 degrees.
C14_Witness ==
    /\ Returned
    /\ ValidConfig
    /\ PassableGap
    /\ MidCenter = 360
    /\ LatestRaw = TURN_LEFT

\* The bin whose center is the target: (start_bin + end_bin) // 2.
MidBin == (LatestGap[1] + LatestGap[2]) \div 2

\* C15: whenever the raw action steers toward a gap, the midpoint bin is a bin
\* of that gap: it lies in the configured FOV and is not blocked in the mask
\* of the call, and the gap's ends span exactly its width, for wrapped FOVs
\* as for unwrapped ones.
C15_MidpointInGap ==
    (Returned /\ ValidConfig /\ LatestRaw # STOP) =>
        /\ \E k \in 1 .. Len(extract_fov_bins(self)) :
               extract_fov_bins(self)[k] = MidBin
        /\ ~cmd.blocked_map[MidBin]
        /\ LatestGap[2] - LatestGap[1] + 1 = LatestGap[3]

----------------------------------------------------------------------------
(* find_largest_gap on its own: every mask over GapBins bins and every     *)
(* increasing sequence of FOV bins, as extract_fov_bins produces them.     *)

GapBins == 5

RECURSIVE SortedSeq(_)
SortedSeq(S) ==
    IF S = {} THEN << >>
    ELSE LET m == CHOOSE x \in S : \A y \in S : x <= y
         IN  <<m>> \o SortedSeq(S \ {m})

GapInit ==
    /\ PlannerNew /\ SmootherIdle
    /\ g_blocked \in [0 .. GapBins - 1 -> BOOLEAN]
    /\ g_fov \in {SortedSeq(S) : S \in SUBSET (0 .. GapBins - 1)}
    /\ g_ret = << >>

\* gap = planner.find_largest_gap(g_blocked, g_fov)
FindLargestGap ==
    /\ g_ret = << >>
    /\ g_ret' = Some(find_largest_gap(g_blocked, g_fov))
    /\ UNCHANGED <<g_blocked, g_fov, pvars, svars>>

GapNext == FindLargestGap

GapSpec == GapInit /\ [][GapNext]_vars

\* Entry k of the FOV-restricted sequence is unblocked.
Free(k) == ~g_blocked[g_fov[k]]

\* Positions a .. b of the sequence are a run of unblocked entries.
IsRun(a, b) ==
    /\ 1 <= a /\ a <= b /\ b <= Len(g_fov)
    /\ \A k \in a .. b : Free(k)

\* C10: find_largest_gap returns None exactly when the FOV sequence is empty
\* or fully blocked; otherwise (start_bin, end_bin, width) of the longest run
\* of unblocked entries, the leftmost of the longest runs, a run that reaches
\* the end of the sequence included.
C10_LargestGap ==
    g_ret # << >> =>
        LET gap == g_ret[1]
            P == 1 .. Len(g_fov)
        IN  /\ gap = None <=> (g_fov = << >> \/ \A k \in P : ~Free(k))
            /\ gap # None =>
                 \E a, b \in P :
                    /\ IsRun(a, b)
                    /\ gap = <<g_fov[a], g_fov[b], b - a + 1>>
                    /\ \A c, d \in P :
                          IsRun(c, d) =>
                              \/ d - c < b - a
                              \/ (d - c = b - a /\ c >= a)

\* Two runs of the same, longest length, the second one reaching the end of
\* the sequence: the first is returned.
C10_Witness ==
    /\ g_ret # << >> /\ Len(g_fov) >= 5
    /\ LET n == Len(g_fov)
       IN  /\ IsRun(1, 2) /\ ~Free(3) /\ IsRun(n - 1, n) /\ ~Free(n - 2)
           /\ g_ret[1] = <<g_fov[1], g_fov[2], 2>>

----------------------------------------------------------------------------
(* The smoother as a state machine *)

\* Calls made on one smoother.
MaxSmoothCalls == 2

\* The defaults (alpha 0.1, med_win 5), heavier and no smoothing, an even
\* median window, and an alpha outside (0, 1].
SmootherConfigs ==
    { [alpha |-> <<1, 10>>, med_win |-> 5],
      [alpha |-> <<1, 2>>, med_win |-> 3],
      [alpha |-> <<1, 1>>, med_win |-> 1],
      [alpha |-> <<1, 10>>, med_win |-> 4],
      [alpha |-> <<3, 2>>, med_win |-> 1] }

Num(v) == <<"num", v>>
NaN == <<"nan", 0>>
Inf == <<"inf", 0>>

\* Profiles of four samples: valid, partly missing (at an end, between equal
\* and between different neighbours), at the validity bounds, all invalid.
Profiles ==
    { <<Num(4000), Num(4000), Num(4000), Num(4000)>>,
      <<Num(100), Num(12000), Num(100), Num(12000)>>,
      <<NaN, Num(4000), Num(250), Num(4000)>>,
      <<Num(4000), Num(7000), Num(4000), Inf>>,
      <<Num(1000), NaN, NaN, Num(4000)>>,
      <<Num(4000), Num(99), Num(4000), Num(4000)>>,
      <<Num(99), Num(100), Num(12000), Num(12001)>>,
      <<Num(-5), Num(8000), NaN, Num(200)>>,
      <<NaN, NaN, NaN, NaN>>,
      <<Num(50), Num(13000), Inf, Num(0)>> }

SmootherInit == PlannerNew /\ GapIdle /\ SmootherIdle

\* smoother = LidarSmoother(alpha = c.alpha, med_win = c.med_win)
SmootherConstruct(c) ==
    /\ s_cfg = << >>
    /\ s_cfg' = Some(c)
    /\ s_state' = None
    /\ UNCHANGED <<s_in, s_ret, s_exc, s_calls, pvars, gvars>>

\* out = smoother(profile)
SmootherCall(profile) ==
    /\ s_cfg # << >>
    /\ s_calls < MaxSmoothCalls
    /\ LET r == smoother_call(s_cfg[1], s_state, profile)
       IN  /\ s_state' = r.state
           /\ s_ret' = r.ret
           /\ s_exc' = r.exc
    /\ s_in' = profile
    /\ s_calls' = s_calls + 1
    /\ UNCHANGED <<s_cfg, pvars, gvars>>

SmootherNext ==
    \/ \E c \in SmootherConfigs : SmootherConstruct(c)
    \/ \E profile \in Profiles : SmootherCall(profile)

SmootherSpec == SmootherInit /\ [][SmootherNext]_vars

\* C6: every call of the smoother, whatever the input and the state, raises
\* no error and returns a profile as long as its input.
C6_Total ==
    s_calls > 0 =>
        /\ s_exc = "none"
        /\ s_ret # << >>
        /\ Len(s_ret[1]) = Len(s_in)

\* alpha lies in (0, 1].
AlphaInRange ==
    /\ FLess(<<0, 1>>, s_cfg[1].alpha)
    /\ ~FLess(<<1, 1>>, s_cfg[1].alpha)

\* The value v lies in [100, 12000] mm.
InRange(v) == ~FLess(v, <<100, 1>>) /\ ~FLess(<<12000, 1>>, v)

\* The latest input has a missing sample at index i.
Missing(i) == validity_filter(s_in[i]) = None

====
